---------------------------- MODULE Spec2Model ----------------------------
(***************************************************************************)
(* The config routes of the dashboard server (src/src/server/routes/       *)
(* config.ts) and the browser's api client (src/src/client/src/services/   *)
(* api.ts), over one config file, its backup files and a clock.            *)
(*                                                                         *)
(* ConfigManager (../services/configManager.js) is imported by the routes  *)
(* but its source is not among the files modelled here; its operations     *)
(* (validateConfig, loadConfig, loadFullConfig and the two awaited steps   *)
(* of saveConfig) follow the design document: a schema check, a JSON read, *)
(* and a copy of the prior file to <file>.backup.<timestamp> followed by a *)
(* write of the whole config, each step atomic at the OS call level.       *)
(***************************************************************************)
EXTENDS Integers, FiniteSets, Sequences, TLC

\* ------------------------------------------------------------------ bounds
MaxTime == 2          \* the clock runs over 0 .. MaxTime
MaxRequests == 3      \* POST /api/config requests started in one behaviour

Clients == {1, 2}     \* browser tabs, each with at most one save in flight
Editor == 1           \* the tab whose form is loaded with GET /api/config/full
Times == 0 .. MaxTime

\* ------------------------------------------------------------- JSON values
\* A server map is a set of <<name, type of command, command>>; the schema
\* wants command to be a string.
UndefMcp == [def |-> FALSE, map |-> {}]
EmptyMcp == [def |-> TRUE, map |-> {}]
McpNpx == [def |-> TRUE, map |-> {<<"a", "string", "npx">>}]
McpNode == [def |-> TRUE, map |-> {<<"a", "string", "node">>}]
McpBad == [def |-> TRUE, map |-> {<<"a", "number", "0">>}]

\* "other" stands for the top-level fields besides mcpServers: absent
\* ("undefined") or set ("dark").

\* A JSON document: kind "undefined" is no value at all (no request body, no
\* file on disk), kind "object" an object with the two top-level fields.
Undefined == [kind |-> "undefined", mcpServers |-> UndefMcp, other |-> "undefined"]
Obj(m, o) == [kind |-> "object", mcpServers |-> m, other |-> o]
NoFile == Undefined

\* Request bodies: two configs the schema accepts, and three it does not
\* (no body at all, an object without mcpServers, a command that is no string).
\* A request without a body reaches the handler with req.body undefined when
\* the body parser leaves it unset, and as the object without mcpServers when
\* the parser supplies {}.
ValidBodies == {Obj(McpNpx, "undefined"), Obj(McpNode, "dark")}
InvalidBodies == {Undefined, Obj(UndefMcp, "undefined"), Obj(McpBad, "dark")}
Bodies == ValidBodies \cup InvalidBodies

\* ----------------------------------------------------------- ConfigManager
\* validateConfig: the schema of MCPConfig, { mcpServers: map<name, ServerConfig> }
\* with ServerConfig.command a string.
validateConfig(c) ==
    LET ok == c.mcpServers.def /\ \A e \in c.mcpServers.map : e[2] = "string"
    IN  [valid |-> ok, errors |-> IF ok THEN {} ELSE {"mcpServers"}]

\* loadFullConfig: the file's whole content (non-mcpServers fields included).
loadFullConfig(file) ==
    IF file.kind = "undefined" THEN Obj(EmptyMcp, "undefined") ELSE file

\* loadConfig: the MCPConfig of the file, mcpServers only.
loadConfig(file) ==
    IF file.kind = "undefined" \/ ~file.mcpServers.def
    THEN Obj(EmptyMcp, "undefined")
    ELSE Obj(file.mcpServers, "undefined")

\* ------------------------------------------------------------------- state
VARIABLES
    disk,       \* content of claude_desktop_config.json, NoFile when absent
    backups,    \* content of <file>.backup.<t> for t in Times, NoFile when absent
    now,        \* the clock that names backups
    req,        \* per client: the POST /api/config in flight and its bookkeeping
    loaded,     \* the config the Editor's form was last loaded with
    lastGet,    \* the answer of the latest GET /api/config, and the request
                \* body saved and answered 200 last before it (expect)
    lastSaved,  \* the request body of the latest write of the config file
    started     \* POST requests started so far

vars == <<disk, backups, now, req, loaded, lastGet, lastSaved, started>>

NoResponse == [ok |-> FALSE, json |-> FALSE, success |-> FALSE, message |-> ""]

\* A request slot. pc is the handler's position; body is req.body; arg is the
\* argument saveConfig was called with; varg the argument of validateConfig;
\* vcalls and scalls count the calls of validateConfig and saveConfig; bk is
\* the backup name this save wrote (-1: none),
\* prior the content its write replaced, wrote whether its write happened;
\* recv, settled and value are the client's side of the exchange.
NoRequest ==
    [pc |-> "idle", body |-> Undefined, arg |-> Undefined, varg |-> Undefined,
     status |-> 0, message |-> "", errors |-> {}, vcalls |-> 0, scalls |-> 0,
     bk |-> -1, prior |-> NoFile, wrote |-> FALSE,
     recv |-> NoResponse, settled |-> "pending", value |-> ""]

\* The config file may be absent or hold a config written earlier.
InitialFiles == {NoFile, Obj(McpNpx, "dark")}

Init ==
    /\ disk \in InitialFiles
    /\ backups = [t \in Times |-> NoFile]
    /\ now = 0
    /\ req = [c \in Clients |-> NoRequest]
    /\ loaded = Undefined
    /\ lastGet = [status |-> 0, data |-> Undefined, expect |-> Undefined]
    /\ lastSaved = [body |-> Undefined, by |-> 0, acked |-> FALSE]
    /\ started = 0

\* ------------------------------------------------------------------ client
\* handleResponse without the check of response.ok: every JSON answer resolves.
handleResponse_NoOkCheck(response) ==
    IF response.json
    THEN [settled |-> "resolved",
          value |-> IF response.success THEN "success:true" ELSE "success:false"]
    ELSE [settled |-> "rejected", value |-> "SyntaxError"]

\* handleResponse (api.ts): a response that is not ok rejects with the body's
\* message, or "Request failed" when the body is not JSON or has no message;
\* an ok response resolves with its JSON body.
handleResponse(response) ==
    IF ~response.ok
    THEN LET error == IF response.json THEN response
                      ELSE [response EXCEPT !.message = "Request failed"]
         IN  [settled |-> "rejected",
              value |-> IF error.message # "" THEN error.message ELSE "Request failed"]
    ELSE IF response.json
         THEN [settled |-> "resolved",
               value |-> IF response.success THEN "success:true" ELSE "success:false"]
         ELSE [settled |-> "rejected", value |-> "SyntaxError"]

\* Error answers that do not come from the route: a body that is not JSON, and
\* a JSON body without a message.
ForeignErrors ==
    {[ok |-> FALSE, json |-> FALSE, success |-> FALSE, message |-> "<html>"],
     [ok |-> FALSE, json |-> TRUE, success |-> FALSE, message |-> ""]}

\* ------------------------------------------------------------------ routes
\* GET /api/config answering with loadFullConfig instead of loadConfig.
GetConfig_Full ==
    /\ \/ lastGet' = [status |-> 200, data |-> loadFullConfig(disk),
                      expect |-> IF lastSaved.acked THEN lastSaved.body ELSE Undefined]
       \/ lastGet' = [status |-> 500, data |-> Undefined, expect |-> Undefined]
    /\ UNCHANGED <<disk, backups, now, req, loaded, lastSaved, started>>

\* GET /api/config: loadConfig, answered as JSON; a throw is answered 500.
GetConfig ==
    /\ \/ lastGet' = [status |-> 200, data |-> loadConfig(disk),
                      expect |-> IF lastSaved.acked THEN lastSaved.body ELSE Undefined]
       \/ lastGet' = [status |-> 500, data |-> Undefined, expect |-> Undefined]
    /\ UNCHANGED <<disk, backups, now, req, loaded, lastSaved, started>>

\* GET /api/config/full through api.getFullConfig: the Editor keeps the
\* config it resolved with; a 500 answer rejects and leaves it as it was.
GetConfigFull ==
    /\ req[Editor].pc = "idle"
    /\ \/ loaded' = loadFullConfig(disk)
       \/ /\ handleResponse([ok |-> FALSE, json |-> TRUE, success |-> FALSE,
                             message |-> "Failed to load full config: EIO"]).settled = "rejected"
          /\ loaded' = loaded
    /\ UNCHANGED <<disk, backups, now, req, lastGet, lastSaved, started>>

\* { mcpServers: config.mcpServers }, the argument of validateConfig.
Projection(config) == Obj(config.mcpServers, "undefined")

\* saveConfig called with the validated projection instead of the body.
SaveArg_Projection(config) == Projection(config)

\* The argument of saveConfig: the request body itself.
SaveArg(config) == config

\* POST /api/config without the return after the 400 answer: the handler goes
\* on to saveConfig.
PostConfig_NoReturn(c, b) ==
    /\ req[c].pc = "idle"
    /\ started < MaxRequests
    /\ started' = started + 1
    /\ \/ /\ b.kind = "undefined"
          /\ req' = [req EXCEPT ![c] = [@ EXCEPT !.pc = "responded", !.body = b,
                        !.status = 500,
                        !.message = "Failed to save config: TypeError"]]
       \/ /\ b.kind = "object"
          /\ ~validateConfig(Projection(b)).valid
          /\ req' = [req EXCEPT ![c] = [@ EXCEPT !.pc = "backup", !.body = b,
                        !.varg = Projection(b), !.vcalls = @ + 1,
                        !.status = 400, !.message = "Invalid configuration",
                        !.errors = validateConfig(Projection(b)).errors,
                        !.arg = SaveArg(b), !.scalls = @ + 1]]
       \/ /\ b.kind = "object"
          /\ validateConfig(Projection(b)).valid
          /\ req' = [req EXCEPT ![c] = [@ EXCEPT !.pc = "backup", !.body = b,
                        !.varg = Projection(b), !.vcalls = @ + 1,
                        !.arg = SaveArg(b), !.scalls = @ + 1]]
    /\ UNCHANGED <<disk, backups, now, loaded, lastGet, lastSaved>>

\* POST /api/config answering success without calling saveConfig.
PostConfig_NoSave(c, b) ==
    /\ req[c].pc = "idle"
    /\ started < MaxRequests
    /\ started' = started + 1
    /\ \/ /\ b.kind = "undefined"
          /\ req' = [req EXCEPT ![c] = [@ EXCEPT !.pc = "responded", !.body = b,
                        !.status = 500,
                        !.message = "Failed to save config: TypeError"]]
       \/ /\ b.kind = "object"
          /\ ~validateConfig(Projection(b)).valid
          /\ req' = [req EXCEPT ![c] = [@ EXCEPT !.pc = "responded", !.body = b,
                        !.varg = Projection(b), !.vcalls = @ + 1,
                        !.status = 400, !.message = "Invalid configuration",
                        !.errors = validateConfig(Projection(b)).errors]]
       \/ /\ b.kind = "object"
          /\ validateConfig(Projection(b)).valid
          /\ req' = [req EXCEPT ![c] = [@ EXCEPT !.pc = "responded", !.body = b,
                        !.varg = Projection(b), !.vcalls = @ + 1,
                        !.status = 200,
                        !.message = "Configuration saved successfully"]]
    /\ UNCHANGED <<disk, backups, now, loaded, lastGet, lastSaved>>

\* POST /api/config up to the first await: req.body is read, its projection
\* validated, and saveConfig called. With no req.body the read of
\* config.mcpServers throws and the catch answers 500.
PostConfig(c, b) ==
    /\ req[c].pc = "idle"
    /\ started < MaxRequests
    /\ started' = started + 1
    /\ \/ /\ b.kind = "undefined"
          /\ req' = [req EXCEPT ![c] = [@ EXCEPT !.pc = "responded", !.body = b,
                        !.status = 500,
                        !.message = "Failed to save config: TypeError"]]
       \/ /\ b.kind = "object"
          /\ ~validateConfig(Projection(b)).valid
          /\ req' = [req EXCEPT ![c] = [@ EXCEPT !.pc = "responded", !.body = b,
                        !.varg = Projection(b), !.vcalls = @ + 1,
                        !.status = 400, !.message = "Invalid configuration",
                        !.errors = validateConfig(Projection(b)).errors]]
       \/ /\ b.kind = "object"
          /\ validateConfig(Projection(b)).valid
          /\ req' = [req EXCEPT ![c] = [@ EXCEPT !.pc = "backup", !.body = b,
                        !.varg = Projection(b), !.vcalls = @ + 1,
                        !.arg = SaveArg(b), !.scalls = @ + 1]]
    /\ UNCHANGED <<disk, backups, now, loaded, lastGet, lastSaved>>

\* saveConfig, first awaited step: the prior file, when there is one, is
\* copied to <file>.backup.<now>; the copy replaces a backup of that name.
SaveConfigBackup(c) ==
    /\ req[c].pc = "backup"
    /\ \/ /\ disk.kind = "object"
          /\ backups' = [backups EXCEPT ![now] = disk]
          /\ req' = [req EXCEPT ![c] = [@ EXCEPT !.pc = "write", !.bk = now]]
       \/ /\ disk.kind = "undefined"
          /\ backups' = backups
          /\ req' = [req EXCEPT ![c] = [@ EXCEPT !.pc = "write"]]
       \/ /\ backups' = backups
          /\ req' = [req EXCEPT ![c] = [@ EXCEPT !.pc = "threw"]]
    /\ UNCHANGED <<disk, now, loaded, lastGet, lastSaved, started>>

\* saveConfig, second awaited step: the whole config is written, or the
\* write fails and leaves the file as it was.
SaveConfigWrite(c) ==
    /\ req[c].pc = "write"
    /\ \/ /\ disk' = req[c].arg
          /\ req' = [req EXCEPT ![c] = [@ EXCEPT !.pc = "resolved", !.prior = disk,
                                                 !.wrote = TRUE]]
          /\ lastSaved' = [body |-> req[c].body, by |-> c, acked |-> FALSE]
       \/ /\ disk' = disk
          /\ req' = [req EXCEPT ![c] = [@ EXCEPT !.pc = "threw"]]
          /\ lastSaved' = lastSaved
    /\ UNCHANGED <<backups, now, loaded, lastGet, started>>

\* POST /api/config with a catch that calls saveConfig again before it gives up.
PostConfigRespond_Retry(c) ==
    /\ \/ /\ req[c].pc = "resolved"
          /\ req' = [req EXCEPT ![c] = [@ EXCEPT !.pc = "responded", !.status = 200,
                        !.message = "Configuration saved successfully"]]
          /\ lastSaved' = IF lastSaved.by = c THEN [lastSaved EXCEPT !.acked = TRUE]
                          ELSE lastSaved
       \/ /\ req[c].pc = "threw"
          /\ req[c].scalls < 2
          /\ req' = [req EXCEPT ![c] = [@ EXCEPT !.pc = "backup", !.scalls = @ + 1]]
          /\ lastSaved' = lastSaved
       \/ /\ req[c].pc = "threw"
          /\ req[c].scalls >= 2
          /\ req' = [req EXCEPT ![c] = [@ EXCEPT !.pc = "responded", !.status = 500,
                        !.message = "Failed to save config: EIO"]]
          /\ lastSaved' = lastSaved
    /\ UNCHANGED <<disk, backups, now, loaded, lastGet, started>>

\* POST /api/config after the await: the success answer, or the catch's 500.
PostConfigRespond(c) ==
    /\ \/ /\ req[c].pc = "resolved"
          /\ req' = [req EXCEPT ![c] = [@ EXCEPT !.pc = "responded", !.status = 200,
                        !.message = "Configuration saved successfully"]]
          /\ lastSaved' = IF lastSaved.by = c THEN [lastSaved EXCEPT !.acked = TRUE]
                          ELSE lastSaved
       \/ /\ req[c].pc = "threw"
          /\ req' = [req EXCEPT ![c] = [@ EXCEPT !.pc = "responded", !.status = 500,
                        !.message = "Failed to save config: EIO"]]
          /\ lastSaved' = lastSaved
    /\ UNCHANGED <<disk, backups, now, loaded, lastGet, started>>

\* The answer of the route as the client's fetch sees it.
ServerResponse(r) ==
    [ok |-> r.status = 200, json |-> TRUE, success |-> r.status = 200,
     message |-> r.message]

\* api.saveConfig settles with handleResponse of the route's answer.
ApiSaveConfig(c) ==
    /\ req[c].pc = "responded"
    /\ LET h == handleResponse(ServerResponse(req[c]))
       IN  req' = [req EXCEPT ![c] = [@ EXCEPT !.pc = "settled",
                       !.recv = ServerResponse(req[c]),
                       !.settled = h.settled, !.value = h.value]]
    /\ UNCHANGED <<disk, backups, now, loaded, lastGet, lastSaved, started>>

\* api.saveConfig when the request is answered before it reaches the route.
ApiSaveConfigForeign(c, response) ==
    /\ req[c].pc = "idle"
    /\ started < MaxRequests
    /\ started' = started + 1
    /\ LET h == handleResponse(response)
       IN  req' = [req EXCEPT ![c] = [@ EXCEPT !.pc = "settled", !.recv = response,
                       !.settled = h.settled, !.value = h.value]]
    /\ UNCHANGED <<disk, backups, now, loaded, lastGet, lastSaved>>

\* The client is ready for its next save; the Editor's form is loaded anew
\* before its next save.
NextRequest(c) ==
    /\ req[c].pc = "settled"
    /\ req' = [req EXCEPT ![c] = NoRequest]
    /\ loaded' = IF c = Editor THEN Undefined ELSE loaded
    /\ UNCHANGED <<disk, backups, now, lastGet, lastSaved, started>>

\* Time passes.
Tick ==
    /\ now < MaxTime
    /\ now' = now + 1
    /\ UNCHANGED <<disk, backups, req, loaded, lastGet, lastSaved, started>>

Next ==
    \/ Tick
    \/ \E c \in Clients, b \in Bodies : PostConfig(c, b)
    \/ \E c \in Clients : SaveConfigBackup(c)
    \/ \E c \in Clients : SaveConfigWrite(c)
    \/ \E c \in Clients : PostConfigRespond(c)
    \/ \E c \in Clients : ApiSaveConfig(c)
    \/ \E c \in Clients, e \in ForeignErrors : ApiSaveConfigForeign(c, e)
    \/ \E c \in Clients : NextRequest(c)

Spec == Init /\ [][Next]_vars

\* The routes that read the file, with the saves of the clients around them.
NextLoad ==
    \/ GetConfig
    \/ GetConfigFull
    \/ \E c \in Clients, b \in Bodies : PostConfig(c, b)
    \/ \E c \in Clients : SaveConfigBackup(c)
    \/ \E c \in Clients : SaveConfigWrite(c)
    \/ \E c \in Clients : PostConfigRespond(c)
    \/ \E c \in Clients : ApiSaveConfig(c)
    \/ \E c \in Clients : NextRequest(c)

LoadSpec == Init /\ [][NextLoad]_vars

\* ------------------------------------------------------------------ claims
\* The request body fails validation: there is no body, or the schema rejects
\* its projection.
Invalid(b) == b.kind = "undefined" \/ ~validateConfig(Projection(b)).valid

\* The step of client c is the synchronous part of POST /api/config.
PostStep(c) == req[c].pc = "idle" /\ req'[c].pc \in {"responded", "backup"}

C2_InvalidRejected ==
    [][\A c \in Clients :
          /\ (PostStep(c) /\ Invalid(req'[c].body)) =>
                /\ req'[c].pc = "responded"
                /\ req'[c].status \in {400, 500}
                /\ req'[c].scalls = 0
                /\ disk' = disk
                /\ backups' = backups
          /\ (req'[c].pc # "idle" /\ req'[c].status # 0 /\ Invalid(req'[c].body)) =>
                /\ req'[c].status \in {400, 500}
                /\ req'[c].scalls = 0
                /\ ~req'[c].wrote
                /\ req'[c].bk = -1]_vars

C2_Witness ==
    \E c \in Clients :
        /\ req[c].pc = "responded"
        /\ req[c].status = 400
        /\ req[c].body = Obj(McpBad, "dark")
        /\ disk.kind = "object"

C4_StatusCodes ==
    \A c \in Clients :
        req[c].status # 0 =>
            /\ Invalid(req[c].body) => (req[c].status = 400 /\ req[c].errors # {})
            /\ req[c].status = 400 => Invalid(req[c].body)
            /\ req[c].status = 500 => (~Invalid(req[c].body) /\ req[c].scalls = 1)
            /\ req[c].status = 200 => (~Invalid(req[c].body) /\ req[c].wrote)

\* C5: a step changes the config file only by the write of one save, to the
\* whole config that save was asked to save; a write that fails leaves the
\* file as it was; and no request calls saveConfig more than once: after a
\* throw the handler only answers 500.
C5_NoPartialNoRetry ==
    [][/\ disk' # disk =>
            \E c \in Clients :
                /\ req[c].pc = "write"
                /\ req'[c].pc = "resolved"
                /\ disk' = req[c].body
       /\ \A c \in Clients :
            /\ req'[c].scalls <= 1
            /\ (req[c].pc = "write" /\ req'[c].pc = "threw") => disk' = disk
            /\ (req[c].pc = "threw" /\ req'[c] # req[c]) =>
                    /\ req'[c].pc = "responded"
                    /\ req'[c].status = 500
                    /\ disk' = disk]_vars

C5_Witness ==
    \E c \in Clients :
        /\ req[c].status = 500
        /\ req[c].scalls = 1
        /\ req[c].bk \in Times
        /\ ~req[c].wrote
        /\ disk = Obj(McpNpx, "dark")
        /\ disk # req[c].body

\* C6: a save's backup is written before its write, the set of backup files
\* never shrinks, and no existing backup's content changes, also when two
\* saves fall on the same timestamp.
C6_BackupsKept ==
    [][/\ \A t \in Times :
            backups[t].kind = "object" => backups'[t] = backups[t]
       /\ \A c \in Clients :
            (req'[c].wrote /\ ~req[c].wrote) => req[c].pc = "write"]_vars

\* The step is the write of the Editor's save, made from a loaded form.
EditorWrite ==
    /\ req[Editor].pc = "write"
    /\ req'[Editor].pc = "resolved"
    /\ loaded.kind = "object"
    /\ disk.kind = "object"

\* C7 as stated: when a config loaded with GET /api/config/full is edited and
\* saved, every top-level field the edit left as loaded has after the write
\* the value it had on disk before it.
C7_UneditedKept_Original ==
    [][EditorWrite =>
          /\ req[Editor].body.mcpServers = loaded.mcpServers
                => disk'.mcpServers = disk.mcpServers
          /\ req[Editor].body.other = loaded.other
                => disk'.other = disk.other]_vars

\* C7 amended: the same, provided the config file still holds what was loaded
\* when the save writes it (no other save wrote the file between the load and
\* this write); saving back the loaded config unedited then leaves the file's
\* content as it was.
C7_UneditedKept ==
    [][(EditorWrite /\ disk = loaded) =>
          /\ req[Editor].body.mcpServers = loaded.mcpServers
                => disk'.mcpServers = disk.mcpServers
          /\ req[Editor].body.other = loaded.other
                => disk'.other = disk.other
          /\ req[Editor].body = loaded => disk' = disk]_vars

C7_Witness ==
    /\ req[Editor].wrote
    /\ loaded = Obj(McpNpx, "dark")
    /\ req[Editor].prior = loaded
    /\ req[Editor].body = Obj(McpNode, "dark")
    /\ disk = Obj(McpNode, "dark")

\* C8: every answered request has called validateConfig exactly once, on
\* { mcpServers: body.mcpServers }; saveConfig at most once, after a valid
\* result and with the whole body; 200 is answered only after the save wrote;
\* and the answer is one of 200, 400, 500.
C8_HandlerOrder ==
    \A c \in Clients :
        req[c].status # 0 =>
            /\ req[c].vcalls = 1
            /\ req[c].varg = Projection(req[c].body)
            /\ req[c].scalls <= 1
            /\ req[c].scalls = 1 =>
                    (validateConfig(req[c].varg).valid /\ req[c].arg = req[c].body)
            /\ req[c].status = 200 => req[c].wrote
            /\ req[c].status \in {200, 400, 500}

\* Both clients' saves have been answered 200.
BothSaved == \A c \in Clients : req[c].status = 200

\* C9 as stated: after two interleaved saves have both answered 200 the file
\* holds one of the two saved configs, and every content a write replaced is
\* the content of some backup file. (Stated for saves whose backups have
\* different names, so that no backup was replaced by the other's.)
C9_Interleaved_Original ==
    (BothSaved /\ req[1].bk # req[2].bk) =>
        /\ disk \in {req[c].body : c \in Clients}
        /\ \A c \in Clients :
              req[c].prior.kind = "object" =>
                  \E t \in Times : backups[t] = req[c].prior

\* C9 amended: after both have answered 200 the file holds exactly one of the
\* two saved configs in full, and both writes have run; a config written by
\* one save and replaced by the other's write need not be in any backup.
C9_Interleaved ==
    BothSaved =>
        /\ disk \in {req[c].body : c \in Clients}
        /\ \A c \in Clients : req[c].wrote /\ req[c].arg = req[c].body

C9_Witness ==
    /\ BothSaved
    /\ req[1].body # req[2].body
    /\ req[2].prior = req[1].body
    /\ req[2].bk \in Times
    /\ req[1].bk \in Times
    /\ req[1].bk # req[2].bk
    /\ disk = req[2].body
    /\ \A t \in Times : backups[t] # req[1].body

\* C10: api.saveConfig resolves exactly when the answer it got is ok, which
\* the route gives only after it validated and wrote the config; it resolves
\* with success true only; a 400 or 500 answer of the route rejects with the
\* route's message, and an error answer that is not JSON or has no message
\* rejects with "Request failed".
C10_ClientView ==
    \A c \in Clients :
        req[c].pc = "settled" =>
            /\ req[c].settled = "resolved" <=> req[c].recv.ok
            /\ req[c].settled = "resolved" =>
                    /\ req[c].status = 200
                    /\ req[c].value = "success:true"
                    /\ req[c].vcalls = 1
                    /\ req[c].wrote
            /\ req[c].settled = "rejected" =>
                    req[c].value = IF req[c].recv.json /\ req[c].recv.message # ""
                                   THEN req[c].recv.message
                                   ELSE "Request failed"
            /\ req[c].status \in {400, 500} =>
                    (req[c].settled = "rejected" /\ req[c].value = req[c].message)
            /\ req[c].status = 200 => req[c].settled = "resolved"

C10_Witness ==
    /\ req[1].pc = "settled"
    /\ req[1].status = 400
    /\ req[1].settled = "rejected"
    /\ req[1].value = "Invalid configuration"
    /\ req[2].pc = "settled"
    /\ req[2].settled = "rejected"
    /\ req[2].value = "Request failed"

=============================================================================
